---- MODULE Spec2Model ----
(***************************************************************************)
(* daxa::gpu::CommandList (src/Daxa/src/rendering/api_abstration/          *)
(* CommandList.cpp) as a state machine: the fields of each command list,   *)
(* the native command buffer it records into, the shared resource handles  *)
(* it retains, and one action per member function.                         *)
(***************************************************************************)
EXTENDS Integers, Naturals, Sequences, FiniteSets, TLC

(* ------------------------------ bounds --------------------------------- *)
\* deepest begin/beginRendering nesting (and unmatched end depth) explored
MaxOps == 2
\* longest usedImages / usedGraphicsPipelines vector explored
MaxUsed == 2
\* most color attachments in one BeginRenderingInfo
MaxColors == 1
\* most VkBufferCopy regions in one copyBufferToBuffer call
MaxRegions == 2
\* operationsInProgress is an unsigned counter; the model keeps CounterWidth bits of it
CounterWidth == 3
\* VkDeviceSize is an unsigned integer; the model keeps SizeWidth bits of it
SizeWidth == 4
\* most changeImageLayout calls in one recording when layouts are followed
MaxTransitions == 3

CounterMod == 2 ^ CounterWidth
SizeMod == 2 ^ SizeWidth

(* ------------------------------ universe ------------------------------- *)
Lists == {"A", "B"}
Images == {"img1", "img2"}
Buffers == {"buf1", "buf2"}
Pipelines == {"pipe1"}
Resources == Images \cup Buffers \cup Pipelines
Layouts == {"UNDEFINED", "GENERAL", "COLOR_ATTACHMENT"}
None == "none"

\* Image::getExtent() of the two images
ImageExtent == [i \in Images |-> IF i = "img1" THEN [width |-> 800, height |-> 600]
                                                ELSE [width |-> 1920, height |-> 1080]]
\* VkRect2D as VkRenderingInfoKHR renderInfo{} leaves it
ZeroRect == [offset |-> [x |-> 0, y |-> 0], extent |-> [width |-> 0, height |-> 0]]
\* render areas a caller may pass explicitly
ExplicitAreas == {[offset |-> [x |-> 16, y |-> 8], extent |-> [width |-> 64, height |-> 32]]}

LoadOps == {"LOAD", "CLEAR"}
StoreOps == {"STORE", "DONT_CARE"}
ResolveModes == {"NONE", "AVERAGE"}
\* VkClearValue: the zero-initialised value and opaque black (0,0,0,1)
ZeroClear == "zero"
ClearValues == {ZeroClear, "opaqueBlack"}
\* RenderAttachmentInfo: what the caller says about one attachment
Attachments == [image : Images, loadOp : LoadOps, storeOp : StoreOps,
                clearValue : ClearValues, resolveMode : ResolveModes]
\* std::optional / nullable pointer: the empty sequence or a sequence of one value
Optional(S) == {<<>>} \cup {<<x>> : x \in S}

\* Buffer::getSize() of the two buffers
BufferSize == [b \in Buffers |-> IF b = "buf1" THEN 2 ELSE 4]

Range(s) == {s[i] : i \in 1..Len(s)}
SeqsUpTo(S, n) == UNION {[1..k -> S] : k \in 0..n}

\* VkBufferCopy values the caller may pass: one byte or the largest size, read from
\* offset 0 or 2, written at offset 2
RegionSizes == {1, SizeMod - 1}
RegionSrcOffsets == {0, 2}
RegionDstOffsets == {2}
Regions == [size : RegionSizes, srcOffset : RegionSrcOffsets, dstOffset : RegionDstOffsets]

VARIABLES
    cl,         \* cl[l]: the fields of command list l
    vk,         \* vk[l]: the native command buffer / pool behind list l
    layout,     \* layout[i]: Image::layout, shared by every handle to image i
    held,       \* resources of which the application still holds a handle
    destroyed,  \* resources whose native object has been destroyed
    aborted,    \* an assertion failed: the process has terminated
    last        \* the most recent call, its arguments and its outcome

vars == <<cl, vk, layout, held, destroyed, aborted, last>>

(* ------------------------------ helpers -------------------------------- *)
\* operationsInProgress += 1 and -= 1 on the unsigned counter
Inc(x) == (x + 1) % CounterMod
Dec(x) == (x + CounterMod - 1) % CounterMod
\* the counter read as a distance from zero, for bounding the exploration
Depth(x) == IF x <= MaxOps THEN x ELSE x - CounterMod

NoCall == [op |-> "construct", list |-> None, ok |-> TRUE, src |-> None, dst |-> None,
           regions |-> <<>>, nativeCopies |-> <<>>, released |-> {},
           image |-> None, newLayout |-> None, barriers |-> <<>>, pipeline |-> None,
           ri |-> <<>>, rendering |-> <<>>]
Call(op, l, ok) == [NoCall EXCEPT !.op = op, !.list = l, !.ok = ok]

\* a list object as the constructor and the device leave it
FreshList == [device |-> TRUE, operationsInProgress |-> 0, empty |-> TRUE,
              usedBuffers |-> <<>>, usedImages |-> <<>>, usedGraphicsPipelines |-> <<>>,
              renderAttachmentBuffer |-> <<>>]
\* std::memset(this, 0, sizeof(CommandList))
ZeroedList == [device |-> FALSE, operationsInProgress |-> 0, empty |-> FALSE,
               usedBuffers |-> <<>>, usedImages |-> <<>>, usedGraphicsPipelines |-> <<>>,
               renderAttachmentBuffer |-> <<>>]
\* a freshly allocated native command buffer and pool
\* (scopes: native begin calls minus native end calls made through the list;
\* inCall: the barrier a changeImageLayout call of the list's thread has recorded
\* while the call has not yet written the layout and returned)
FreshNative == [recorded |-> FALSE, images |-> {}, buffers |-> {}, pipelines |-> {},
                scopes |-> 0, cmdFreed |-> 0, poolDestroyed |-> 0, inFlight |-> FALSE,
                leaked |-> {}, inCall |-> <<>>]

\* handles a list object holds in its three usage vectors
Retained(c) == Range(c.usedBuffers) \cup Range(c.usedImages) \cup Range(c.usedGraphicsPipelines)
\* resources the recorded native commands of a list refer to
Referenced(n) == n.images \cup n.buffers \cup n.pipelines
\* a shared handle count above zero: the application, a usage vector, or a leaked copy
HasHolder(r, c, n, h) ==
    \/ r \in h
    \/ \E l \in Lists : r \in Retained(c[l]) \/ r \in n[l].leaked
\* the handles in `gone` were just released: objects without a holder are destroyed
Destroyed(gone, c, n, h) == destroyed \cup {r \in gone : ~HasHolder(r, c, n, h)}

\* a member function can be called: the process runs, the object is alive, and (the
\* caller's obligations) its command buffer is not being executed by the GPU and the
\* one thread that records on the list is not inside another call
Callable(l) == ~aborted /\ cl[l].device /\ ~vk[l].inFlight /\ vk[l].inCall = <<>>
Usable(rs) == rs \subseteq held \ destroyed

Init ==
    /\ cl = [l \in Lists |-> FreshList]
    /\ vk = [l \in Lists |-> FreshNative]
    /\ layout = [i \in Images |-> "UNDEFINED"]
    /\ held = Resources
    /\ destroyed = {}
    /\ aborted = FALSE
    /\ last = NoCall

(* ------------------------------ actions -------------------------------- *)
BeginSharedCounter(l) ==
    /\ Callable(l)
    /\ Depth(cl[l].operationsInProgress) < MaxOps
    /\ cl' = [o \in Lists |-> [cl[o] EXCEPT !.operationsInProgress = Inc(@)]]
    /\ vk' = [vk EXCEPT ![l].recorded = TRUE, ![l].scopes = @ + 1]
    /\ last' = Call("begin", l, TRUE)
    /\ UNCHANGED <<layout, held, destroyed, aborted>>

Begin(l) ==
    /\ Callable(l)
    /\ Depth(cl[l].operationsInProgress) < MaxOps
    /\ cl' = [cl EXCEPT ![l].operationsInProgress = Inc(@)]
    /\ vk' = [vk EXCEPT ![l].recorded = TRUE, ![l].scopes = @ + 1]
    /\ last' = Call("begin", l, TRUE)
    /\ UNCHANGED <<layout, held, destroyed, aborted>>

End(l) ==
    /\ Callable(l)
    /\ Depth(cl[l].operationsInProgress) > -MaxOps
    /\ cl' = [cl EXCEPT ![l].operationsInProgress = Dec(@)]
    /\ vk' = [vk EXCEPT ![l].scopes = @ - 1]
    /\ last' = Call("end", l, TRUE)
    /\ UNCHANGED <<layout, held, destroyed, aborted>>

\* BeginRenderingInfo: color attachments in order, optional depth and stencil
\* attachments, optional explicit render area
RenderingInfo(colorAttachments, depthAttachment, stencilAttachment, renderArea) ==
    [colorAttachments |-> colorAttachments, depthAttachment |-> depthAttachment,
     stencilAttachment |-> stencilAttachment, renderArea |-> renderArea]

\* the images a BeginRenderingInfo names
ImagesOf(attachments) == [i \in 1..Len(attachments) |-> attachments[i].image]
AttachedImages(ri) ==
    Range(ImagesOf(ri.colorAttachments)) \cup Range(ImagesOf(ri.depthAttachment))
        \cup Range(ImagesOf(ri.stencilAttachment))

\* the VkRenderingAttachmentInfoKHR built for a color attachment
ColorAttachmentInfo(a) ==
    [imageView |-> a.image, imageLayout |-> layout[a.image], resolveMode |-> "NONE",
     loadOp |-> a.loadOp, storeOp |-> a.storeOp, clearValue |-> a.clearValue]
\* the VkRenderingAttachmentInfoKHR built for the depth attachment; the initialiser
\* names no clearValue, which is therefore zero-initialised
DepthAttachmentInfo(a) ==
    [imageView |-> a.image, imageLayout |-> layout[a.image], resolveMode |-> a.resolveMode,
     loadOp |-> a.loadOp, storeOp |-> a.storeOp, clearValue |-> ZeroClear]
\* the same for the stencil attachment
StencilAttachmentInfo(a) ==
    [imageView |-> a.image, imageLayout |-> layout[a.image], resolveMode |-> a.resolveMode,
     loadOp |-> a.loadOp, storeOp |-> a.storeOp, clearValue |-> ZeroClear]

RenderAreaDepthFirst(ri) ==
    IF ri.renderArea # <<>> THEN ri.renderArea[1]
    ELSE IF ri.depthAttachment # <<>>
         THEN [ZeroRect EXCEPT !.extent = ImageExtent[ri.depthAttachment[1].image]]
    ELSE IF Len(ri.colorAttachments) > 0
         THEN [ZeroRect EXCEPT !.extent = ImageExtent[ri.colorAttachments[1].image]]
    ELSE IF ri.stencilAttachment # <<>>
         THEN [ZeroRect EXCEPT !.extent = ImageExtent[ri.stencilAttachment[1].image]]
    ELSE ZeroRect

\* renderInfo.renderArea: the if / else-if chain over the zero-initialised rectangle
RenderArea(ri) ==
    IF ri.renderArea # <<>> THEN ri.renderArea[1]
    ELSE IF Len(ri.colorAttachments) > 0
         THEN [ZeroRect EXCEPT !.extent = ImageExtent[ri.colorAttachments[1].image]]
    ELSE IF ri.depthAttachment # <<>>
         THEN [ZeroRect EXCEPT !.extent = ImageExtent[ri.depthAttachment[1].image]]
    ELSE IF ri.stencilAttachment # <<>>
         THEN [ZeroRect EXCEPT !.extent = ImageExtent[ri.stencilAttachment[1].image]]
    ELSE ZeroRect

AttachmentBufferKept(buffer) == buffer

\* renderAttachmentBuffer.clear()
AttachmentBufferCleared(buffer) == <<>>

\* one native record per element of ri.colorAttachments is pushed onto the scratch
\* buffer; the native call reads colorAttachmentCount records from its start
BeginRendering(l, ri) ==
    LET count == Len(ri.colorAttachments)
        buffer == cl[l].renderAttachmentBuffer
                      \o [i \in 1..count |-> ColorAttachmentInfo(ri.colorAttachments[i])]
        renderInfo ==
            [renderArea |-> RenderArea(ri),
             layerCount |-> 1,
             colorAttachmentCount |-> count,
             colorAttachments |-> SubSeq(buffer, 1, count),
             depthAttachment |-> [i \in 1..Len(ri.depthAttachment) |->
                                     DepthAttachmentInfo(ri.depthAttachment[i])],
             stencilAttachment |-> [i \in 1..Len(ri.stencilAttachment) |->
                                       StencilAttachmentInfo(ri.stencilAttachment[i])]]
    IN  /\ Callable(l)
        /\ Usable(AttachedImages(ri))
        /\ Depth(cl[l].operationsInProgress) < MaxOps
        /\ Len(cl[l].usedImages) + count <= MaxUsed
        /\ cl' = [cl EXCEPT ![l].operationsInProgress = Inc(@),
                            ![l].usedImages = @ \o ImagesOf(ri.colorAttachments),
                            ![l].renderAttachmentBuffer = AttachmentBufferCleared(buffer)]
        /\ vk' = [vk EXCEPT ![l].recorded = TRUE, ![l].scopes = @ + 1,
                            ![l].images = @ \cup AttachedImages(ri)]
        /\ last' = [Call("beginRendering", l, TRUE) EXCEPT
                        !.ri = <<ri>>, !.rendering = <<renderInfo>>]
        /\ UNCHANGED <<layout, held, destroyed, aborted>>

EndRenderingReleasing(l) ==
    /\ Callable(l)
    /\ Depth(cl[l].operationsInProgress) > -MaxOps
    /\ cl' = [cl EXCEPT ![l].operationsInProgress = Dec(@), ![l].usedImages = <<>>]
    /\ vk' = [vk EXCEPT ![l].recorded = TRUE, ![l].scopes = @ - 1]
    /\ last' = Call("endRendering", l, TRUE)
    /\ UNCHANGED <<layout, held, destroyed, aborted>>

EndRendering(l) ==
    /\ Callable(l)
    /\ Depth(cl[l].operationsInProgress) > -MaxOps
    /\ cl' = [cl EXCEPT ![l].operationsInProgress = Dec(@)]
    /\ vk' = [vk EXCEPT ![l].recorded = TRUE, ![l].scopes = @ - 1]
    /\ last' = Call("endRendering", l, TRUE)
    /\ UNCHANGED <<layout, held, destroyed, aborted>>

BindPipelineNotRetaining(l, graphicsPipeline) ==
    /\ Callable(l)
    /\ Usable({graphicsPipeline})
    /\ Len(cl[l].usedGraphicsPipelines) < MaxUsed
    /\ vk' = [vk EXCEPT ![l].recorded = TRUE,
                        ![l].pipelines = @ \cup {graphicsPipeline}]
    /\ last' = [Call("bindPipeline", l, TRUE) EXCEPT !.pipeline = graphicsPipeline]
    /\ UNCHANGED <<cl, layout, held, destroyed, aborted>>

BindPipeline(l, graphicsPipeline) ==
    /\ Callable(l)
    /\ Usable({graphicsPipeline})
    /\ Len(cl[l].usedGraphicsPipelines) < MaxUsed
    /\ cl' = [cl EXCEPT ![l].usedGraphicsPipelines = Append(@, graphicsPipeline)]
    /\ vk' = [vk EXCEPT ![l].recorded = TRUE,
                        ![l].pipelines = @ \cup {graphicsPipeline}]
    /\ last' = [Call("bindPipeline", l, TRUE) EXCEPT !.pipeline = graphicsPipeline]
    /\ UNCHANGED <<layout, held, destroyed, aborted>>

\* assert(operationsInProgress == 0)
ResetAllowed(c) == c.operationsInProgress = 0

\* reset() without usedImages.clear()
ResetClearedKeepsImages(c) == [c EXCEPT !.empty = TRUE, !.usedBuffers = <<>>,
                                        !.usedGraphicsPipelines = <<>>]

\* the list object after empty = true and the three clear() calls
ResetCleared(c) == [c EXCEPT !.empty = TRUE, !.usedBuffers = <<>>,
                             !.usedImages = <<>>, !.usedGraphicsPipelines = <<>>]

ResetRestoringLayout(l) ==
    /\ Callable(l)
    /\ IF ResetAllowed(cl[l])
       THEN LET c == [cl EXCEPT ![l] = ResetCleared(@)]
                n == [vk EXCEPT ![l].recorded = FALSE, ![l].images = {},
                                ![l].buffers = {}, ![l].pipelines = {}]
                gone == Retained(cl[l]) \ Retained(c[l])
            IN  /\ cl' = c
                /\ vk' = n
                /\ destroyed' = Destroyed(gone, c, n, held)
                /\ last' = [Call("reset", l, TRUE) EXCEPT !.released = gone]
                /\ layout' = [i \in Images |->
                                 IF i \in Range(cl[l].usedImages) THEN "UNDEFINED"
                                                                  ELSE layout[i]]
                /\ UNCHANGED aborted
       ELSE /\ aborted' = TRUE
            /\ last' = Call("reset", l, FALSE)
            /\ UNCHANGED <<cl, vk, destroyed, layout>>
    /\ UNCHANGED held

Reset(l) ==
    /\ Callable(l)
    /\ IF ResetAllowed(cl[l])
       THEN LET c == [cl EXCEPT ![l] = ResetCleared(@)]
                n == [vk EXCEPT ![l].recorded = FALSE, ![l].images = {},
                                ![l].buffers = {}, ![l].pipelines = {}]
                gone == Retained(cl[l]) \ Retained(c[l])
            IN  /\ cl' = c
                /\ vk' = n
                /\ destroyed' = Destroyed(gone, c, n, held)
                /\ last' = [Call("reset", l, TRUE) EXCEPT !.released = gone]
                /\ UNCHANGED aborted
       ELSE /\ aborted' = TRUE
            /\ last' = Call("reset", l, FALSE)
            /\ UNCHANGED <<cl, vk, destroyed>>
    /\ UNCHANGED <<layout, held>>

LayoutBarrierFromUndefined(image, newLayout) ==
    [image |-> image, oldLayout |-> "UNDEFINED", newLayout |-> newLayout]

\* the VkImageMemoryBarrier handed to vkCmdPipelineBarrier
LayoutBarrier(image, newLayout) ==
    [image |-> image, oldLayout |-> layout[image], newLayout |-> newLayout]

ChangeImageLayoutKeepingLayout(n, l, image, newLayout) ==
    /\ Callable(l)
    /\ Usable({image})
    /\ Len(cl[l].usedImages) < n
    /\ cl' = [cl EXCEPT ![l].usedImages = Append(@, image)]
    /\ vk' = [vk EXCEPT ![l].recorded = TRUE,
                        ![l].images = @ \cup {image}]
    /\ last' = [Call("changeImageLayout", l, TRUE) EXCEPT
                    !.image = image, !.newLayout = newLayout,
                    !.barriers = <<LayoutBarrier(image, newLayout)>>]
    /\ UNCHANGED <<layout, held, destroyed, aborted>>

\* changeImageLayout, explored while usedImages holds fewer than n handles
ChangeImageLayoutWithin(n, l, image, newLayout) ==
    /\ Callable(l)
    /\ Usable({image})
    /\ Len(cl[l].usedImages) < n
    /\ layout' = [layout EXCEPT ![image] = newLayout]
    /\ cl' = [cl EXCEPT ![l].usedImages = Append(@, image)]
    /\ vk' = [vk EXCEPT ![l].recorded = TRUE,
                        ![l].images = @ \cup {image}]
    /\ last' = [Call("changeImageLayout", l, TRUE) EXCEPT
                    !.image = image, !.newLayout = newLayout,
                    !.barriers = <<LayoutBarrier(image, newLayout)>>]
    /\ UNCHANGED <<held, destroyed, aborted>>

ChangeImageLayout(l, image, newLayout) ==
    ChangeImageLayoutWithin(MaxUsed, l, image, newLayout)

\* changeImageLayout as two threads can interleave it, first half: the layout is
\* read into the barrier and the barrier is recorded
ChangeImageLayoutEnter(l, image, newLayout) ==
    /\ Callable(l)
    /\ Usable({image})
    /\ Len(cl[l].usedImages) < MaxUsed
    /\ vk' = [vk EXCEPT ![l].recorded = TRUE,
                        ![l].images = @ \cup {image},
                        ![l].inCall = <<LayoutBarrier(image, newLayout)>>]
    /\ last' = [Call("changeImageLayoutEnter", l, TRUE) EXCEPT
                    !.image = image, !.newLayout = newLayout]
    /\ UNCHANGED <<cl, layout, held, destroyed, aborted>>

\* second half: image->layout = newLayout and the push onto usedImages
ChangeImageLayoutReturn(l) ==
    /\ ~aborted
    /\ vk[l].inCall # <<>>
    /\ LET barrier == vk[l].inCall[1]
       IN  /\ layout' = [layout EXCEPT ![barrier.image] = barrier.newLayout]
           /\ cl' = [cl EXCEPT ![l].usedImages = Append(@, barrier.image)]
           /\ vk' = [vk EXCEPT ![l].inCall = <<>>]
           /\ last' = [Call("changeImageLayout", l, TRUE) EXCEPT
                           !.image = barrier.image, !.newLayout = barrier.newLayout,
                           !.barriers = <<barrier>>]
    /\ UNCHANGED <<held, destroyed, aborted>>

SetViewport(l) ==
    /\ Callable(l)
    /\ vk' = [vk EXCEPT ![l].recorded = TRUE]
    /\ last' = Call("setViewport", l, TRUE)
    /\ UNCHANGED <<cl, layout, held, destroyed, aborted>>

SetScissor(l) ==
    /\ Callable(l)
    /\ vk' = [vk EXCEPT ![l].recorded = TRUE]
    /\ last' = Call("setScissor", l, TRUE)
    /\ UNCHANGED <<cl, layout, held, destroyed, aborted>>

Draw(l) ==
    /\ Callable(l)
    /\ vk' = [vk EXCEPT ![l].recorded = TRUE]
    /\ last' = Call("draw", l, TRUE)
    /\ UNCHANGED <<cl, layout, held, destroyed, aborted>>

\* size + offset as VkDeviceSize arithmetic computes it
SizeSum(a, b) == (a + b) % SizeMod

\* copyBufferToBuffer checking only the first region against both buffers
CopyRegionsValidFirstOnly(src, dst, copyRegions) ==
    /\ Len(copyRegions) > 0
    /\ BufferSize[src] >= SizeSum(copyRegions[1].size, copyRegions[1].srcOffset)
    /\ BufferSize[dst] >= SizeSum(copyRegions[1].size, copyRegions[1].dstOffset)

\* the three assertions of copyBufferToBuffer
CopyRegionsValid(src, dst, copyRegions) ==
    /\ Len(copyRegions) > 0
    /\ \A i \in 1..Len(copyRegions) :
        /\ BufferSize[src] >= SizeSum(copyRegions[i].size, copyRegions[i].srcOffset)
        /\ BufferSize[dst] >= SizeSum(copyRegions[i].size, copyRegions[i].dstOffset)

CopyBufferToBuffer(l, src, dst, copyRegions) ==
    LET call == [Call("copyBufferToBuffer", l, TRUE) EXCEPT
                    !.src = src, !.dst = dst, !.regions = copyRegions]
    IN  /\ Callable(l)
        /\ Usable({src, dst})
        /\ IF CopyRegionsValid(src, dst, copyRegions)
           THEN /\ vk' = [vk EXCEPT ![l].recorded = TRUE,
                                    ![l].buffers = @ \cup {src, dst}]
                /\ last' = [call EXCEPT !.nativeCopies = <<copyRegions>>]
                /\ UNCHANGED aborted
           ELSE /\ aborted' = TRUE
                /\ last' = [call EXCEPT !.ok = FALSE]
                /\ UNCHANGED vk
        /\ UNCHANGED <<cl, layout, held, destroyed>>

\* the destructor without assert(operationsInProgress == 0)
DestroyAllowedEmptyOnly(c) == c.empty

\* assert(operationsInProgress == 0); assert(empty)
DestroyAllowed(c) == c.operationsInProgress = 0 /\ c.empty

\* the native side after vkFreeCommandBuffers and vkDestroyCommandPool; the handles
\* the zeroed vectors held are never released
DestroyFreed(n, c) == [n EXCEPT !.recorded = FALSE, !.images = {}, !.buffers = {},
                                !.pipelines = {}, !.scopes = 0,
                                !.cmdFreed = IF @ < 2 THEN @ + 1 ELSE @,
                                !.poolDestroyed = IF @ < 2 THEN @ + 1 ELSE @,
                                !.leaked = @ \cup Retained(c)]

\* ~CommandList()
Destroy(l) ==
    /\ ~aborted
    /\ IF cl[l].device
       THEN IF DestroyAllowed(cl[l])
            THEN /\ vk' = [vk EXCEPT ![l] = DestroyFreed(@, cl[l])]
                 /\ cl' = [cl EXCEPT ![l] = ZeroedList]
                 /\ last' = Call("destroy", l, TRUE)
                 /\ UNCHANGED aborted
            ELSE /\ aborted' = TRUE
                 /\ last' = Call("destroy", l, FALSE)
                 /\ UNCHANGED <<cl, vk>>
       ELSE /\ last' = Call("destroy", l, TRUE)
            /\ UNCHANGED <<cl, vk, aborted>>
    /\ UNCHANGED <<layout, held, destroyed>>

(* -------------------- submission and handle release -------------------- *)
\* the frame orchestrator hands an ended recording to the queue
Submit(l) ==
    /\ Callable(l)
    /\ cl[l].operationsInProgress = 0
    /\ vk[l].recorded
    /\ vk' = [vk EXCEPT ![l].inFlight = TRUE]
    /\ last' = Call("submit", l, TRUE)
    /\ UNCHANGED <<cl, layout, held, destroyed, aborted>>

\* the GPU finishes executing the submitted command buffer
Complete(l) ==
    /\ ~aborted
    /\ vk[l].inFlight
    /\ vk' = [vk EXCEPT ![l].inFlight = FALSE]
    /\ last' = Call("complete", l, TRUE)
    /\ UNCHANGED <<cl, layout, held, destroyed, aborted>>

\* the application drops its handle to r; the last handle destroys the native object
ReleaseHandle(r) ==
    /\ ~aborted
    /\ r \in held
    /\ held' = held \ {r}
    /\ destroyed' = Destroyed({r}, cl, vk, held \ {r})
    /\ last' = Call("release", None, TRUE)
    /\ UNCHANGED <<cl, vk, layout, aborted>>

(* --------------------------- specifications ---------------------------- *)
\* an attachment with the usual operations: clear on load, store, opaque black
PlainAttachment(i) == [image |-> i, loadOp |-> "CLEAR", storeOp |-> "STORE",
                       clearValue |-> "opaqueBlack", resolveMode |-> "NONE"]
PlainAttachments == {PlainAttachment(i) : i \in Images}
ColorInputs == SeqsUpTo(PlainAttachments, MaxColors)
OptionalImage == Optional(PlainAttachments)
\* copy regions of one byte
SmallRegions == {r \in Regions : r.size = 1}

\* every member function called on one list, in any order
Next ==
    \E l \in {"A"} :
        \/ Begin(l)
        \/ End(l)
        \/ \E c \in ColorInputs, d \in OptionalImage :
               BeginRendering(l, RenderingInfo(c, d, <<>>, <<>>))
        \/ EndRendering(l)
        \/ \E p \in Pipelines : BindPipeline(l, p)
        \/ Reset(l)
        \/ \E i \in Images : ChangeImageLayout(l, i, "GENERAL")
        \/ SetViewport(l)
        \/ SetScissor(l)
        \/ Draw(l)
        \/ \E s \in Buffers : \E d \in Buffers \ {s}, r \in SeqsUpTo(SmallRegions, 1) :
               CopyBufferToBuffer(l, s, d, r)
        \/ Destroy(l)

Spec == Init /\ [][Next]_vars

\* copyBufferToBuffer on every buffer pair and every region list up to MaxRegions
NextCopy ==
    \E l \in {"A"} :
        \/ Begin(l)
        \/ End(l)
        \/ \E s \in Buffers, d \in Buffers, r \in SeqsUpTo(Regions, MaxRegions) :
               CopyBufferToBuffer(l, s, d, r)
        \/ Reset(l)

SpecCopy == Init /\ [][NextCopy]_vars

\* record, submit, wait for completion, reset, while the application drops handles
NextLife ==
    \/ \E l \in {"A"} :
        \/ Begin(l)
        \/ End(l)
        \/ \E c \in ColorInputs, d \in OptionalImage : BeginRendering(l, RenderingInfo(c, d, <<>>, <<>>))
        \/ EndRendering(l)
        \/ \E p \in Pipelines : BindPipeline(l, p)
        \/ \E s \in Buffers, d \in Buffers :
               CopyBufferToBuffer(l, s, d, <<[size |-> 1, srcOffset |-> 0, dstOffset |-> 0]>>)
        \/ Reset(l)
        \/ Submit(l)
        \/ Complete(l)
    \/ \E r \in Resources : ReleaseHandle(r)

SpecLife == Init /\ [][NextLife]_vars

\* an attachment that loads, resolves and discards instead
ResolvedAttachment(i) == [image |-> i, loadOp |-> "LOAD", storeOp |-> "DONT_CARE",
                          clearValue |-> ZeroClear, resolveMode |-> "AVERAGE"]
\* BeginRenderingInfo values with and without each kind of attachment and an
\* explicit area, on images of both extents and with both kinds of operations
RenderingInputs ==
    {RenderingInfo(c, d, s, a) :
        c \in SeqsUpTo({PlainAttachment("img1"), ResolvedAttachment("img2")}, MaxColors),
        d \in Optional({PlainAttachment("img2"), ResolvedAttachment("img1")}),
        s \in Optional({PlainAttachment("img1")}),
        a \in Optional(ExplicitAreas)}

\* render passes on every combination of attachments, between layout changes
NextRender ==
    \E l \in {"A"} :
        \/ \E i \in Images, n \in Layouts : ChangeImageLayout(l, i, n)
        \/ \E ri \in RenderingInputs : BeginRendering(l, ri)
        \/ EndRendering(l)
        \/ Reset(l)

SpecRender == Init /\ [][NextRender]_vars

\* up to MaxTransitions layout changes in one recording, to every layout
NextLayout ==
    \E l \in {"A"} :
        \/ Begin(l)
        \/ \E i \in Images, n \in Layouts : ChangeImageLayoutWithin(MaxTransitions, l, i, n)
        \/ End(l)

SpecLayout == Init /\ [][NextLayout]_vars

\* the frame of a renderer: begin, one render pass with one color attachment, a
\* pipeline, a draw, then reset, over and over
CycleInputs ==
    {RenderingInfo(<<c>>, d, <<>>, a) : c \in Attachments, d \in OptionalImage,
                                       a \in Optional(ExplicitAreas)}
NextCycle ==
    \E l \in {"A"} :
        \/ last.op \in {"construct", "reset"} /\ Begin(l)
        \/ last.op = "begin" /\ \E ri \in CycleInputs : BeginRendering(l, ri)
        \/ last.op = "beginRendering" /\ \E p \in Pipelines : BindPipeline(l, p)
        \/ last.op = "bindPipeline" /\ Draw(l)
        \/ last.op = "draw" /\ EndRendering(l)
        \/ last.op = "endRendering" /\ End(l)
        \/ last.op = "end" /\ Reset(l)

SpecCycle == Init /\ [][NextCycle]_vars

\* two threads, one list each, changing the layouts of the same images: the two
\* halves of a call interleave with the halves of the other thread's calls
NextRace ==
    \E l \in Lists :
        \/ \E i \in Images, n \in Layouts : ChangeImageLayoutEnter(l, i, n)
        \/ ChangeImageLayoutReturn(l)

SpecRace == Init /\ [][NextRace]_vars

\* two lists, each recorded, reset and destroyed by its own thread, in any
\* interleaving of their calls
NextThreads ==
    \E l \in Lists :
        \/ Begin(l)
        \/ End(l)
        \/ ChangeImageLayoutEnter(l, "img1", "GENERAL")
        \/ ChangeImageLayoutReturn(l)
        \/ \E ri \in {RenderingInfo(<<PlainAttachment("img2")>>, <<>>, <<>>, <<>>)} :
               BeginRendering(l, ri)
        \/ Reset(l)
        \/ Destroy(l)

SpecThreads == Init /\ [][NextThreads]_vars

(* ----------------------------- properties ------------------------------- *)
\* C1: every resource a command recorded since the last reset() refers to (each
\* color, depth and stencil attachment, each bound pipeline, both buffers of a copy,
\* each image of a layout change) is a member of the matching usage vector.
C1_ReferencedResourcesRetained ==
    \A l \in Lists :
        /\ vk[l].images \subseteq Range(cl[l].usedImages)
        /\ vk[l].pipelines \subseteq Range(cl[l].usedGraphicsPipelines)
        /\ vk[l].buffers \subseteq Range(cl[l].usedBuffers)

\* C2: the native object of a resource is never destroyed while a submitted, not yet
\* completed command list has recorded work that refers to it.
C2_NoDestructionInFlight ==
    \A l \in Lists : vk[l].inFlight => Referenced(vk[l]) \cap destroyed = {}

\* C3: begin() on a list whose in-progress counter is non-zero fails with an
\* assertion and starts no recording; with the counter at zero it makes the counter 1.
C3_BeginRejectsNested ==
    [][\A l \in Lists :
          (last'.op = "begin" /\ last'.list = l) =>
              IF cl[l].operationsInProgress # 0
              THEN aborted' /\ cl'[l] = cl[l] /\ vk'[l] = vk[l]
              ELSE ~aborted' /\ cl'[l].operationsInProgress = 1]_vars

\* C4: reset() with a non-zero in-progress counter fails and leaves the usage vectors
\* and the empty flag as they were; with the counter at zero it leaves the three
\* usage vectors empty and the empty flag true.
C4_ResetContract ==
    [][\A l \in Lists :
          (last'.op = "reset" /\ last'.list = l) =>
              IF cl[l].operationsInProgress # 0
              THEN /\ aborted' /\ ~last'.ok
                   /\ cl'[l].usedBuffers = cl[l].usedBuffers
                   /\ cl'[l].usedImages = cl[l].usedImages
                   /\ cl'[l].usedGraphicsPipelines = cl[l].usedGraphicsPipelines
                   /\ cl'[l].empty = cl[l].empty
              ELSE /\ ~aborted' /\ last'.ok
                   /\ cl'[l].usedBuffers = <<>>
                   /\ cl'[l].usedImages = <<>>
                   /\ cl'[l].usedGraphicsPipelines = <<>>
                   /\ cl'[l].empty]_vars

\* a reset() was refused while the list held images and pipelines
C4_ResetRefusedWitness ==
    /\ last.op = "reset" /\ ~last.ok /\ aborted
    /\ cl["A"].operationsInProgress # 0
    /\ cl["A"].usedImages # <<>>
    /\ cl["A"].usedGraphicsPipelines # <<>>

\* C5: end() or endRendering() with the in-progress counter at zero is rejected
\* instead of decrementing, so the counter never passes below zero (never wraps).
C5_UnmatchedEndRejected ==
    [][\A l \in Lists :
          (last'.op \in {"end", "endRendering"} /\ last'.list = l) =>
              IF cl[l].operationsInProgress = 0
              THEN aborted' /\ cl'[l].operationsInProgress = 0
              ELSE cl'[l].operationsInProgress = cl[l].operationsInProgress - 1]_vars

\* C6: after any sequence of calls on a list that started idle, the in-progress
\* counter is the number of begin and beginRendering calls minus the number of end
\* and endRendering calls.
C6_CounterIsScopeBalance ==
    \A l \in Lists : cl[l].device => cl[l].operationsInProgress = vk[l].scopes

\* C7: destroying a list that has a device fails when its counter is non-zero or its
\* empty flag is false; destroying an idle, empty list frees the command buffer and
\* destroys the pool, each exactly once; a list without a device frees nothing.
C7_DestroyContract ==
    [][\A l \in Lists :
          (last'.op = "destroy" /\ last'.list = l) =>
              IF ~cl[l].device
              THEN ~aborted' /\ vk'[l] = vk[l]
              ELSE IF cl[l].operationsInProgress # 0 \/ ~cl[l].empty
                   THEN aborted' /\ ~last'.ok /\ vk'[l] = vk[l]
                   ELSE /\ ~aborted' /\ last'.ok
                        /\ vk[l].cmdFreed = 0 /\ vk'[l].cmdFreed = 1
                        /\ vk[l].poolDestroyed = 0 /\ vk'[l].poolDestroyed = 1]_vars

\* an idle, empty list was destroyed and its command buffer and pool were freed
C7_DestroyedWitness ==
    /\ last.op = "destroy" /\ last.ok /\ ~aborted
    /\ ~cl["A"].device
    /\ vk["A"].cmdFreed = 1 /\ vk["A"].poolDestroyed = 1

\* C8: the empty flag of a live list is true exactly when nothing has been recorded
\* on it since its last reset() or its construction.
C8_EmptyIffNothingRecorded ==
    \A l \in Lists : cl[l].device => (cl[l].empty <=> ~vk[l].recorded)

\* C9: copyBufferToBuffer fails and issues no native copy when the region list is
\* empty or some region's size + srcOffset exceeds src's size or its size + dstOffset
\* exceeds dst's size (sums as VkDeviceSize computes them); otherwise it issues
\* exactly one native copy with all the regions.
C9_CopyValidation ==
    last.op = "copyBufferToBuffer" =>
        LET rs == last.regions
            srcShort == \E i \in 1..Len(rs) :
                            SizeSum(rs[i].size, rs[i].srcOffset) > BufferSize[last.src]
            dstShort == \E i \in 1..Len(rs) :
                            SizeSum(rs[i].size, rs[i].dstOffset) > BufferSize[last.dst]
        IN  IF rs = <<>> \/ srcShort \/ dstShort
            THEN aborted /\ ~last.ok /\ last.nativeCopies = <<>>
            ELSE ~aborted /\ last.ok /\ last.nativeCopies = <<rs>>

\* a copy was refused because of its second region, the first being in bounds
C9_SecondRegionRefusedWitness ==
    /\ last.op = "copyBufferToBuffer" /\ ~last.ok /\ aborted
    /\ Len(last.regions) = 2
    /\ CopyRegionsValid(last.src, last.dst, <<last.regions[1]>>)
    /\ last.nativeCopies = <<>>

\* C10: after a copyBufferToBuffer call with at least one region, all in bounds,
\* src and dst are both members of the list's usedBuffers.
C10_CopyRetainsBuffers ==
    \A l \in Lists :
        (last.op = "copyBufferToBuffer" /\ last.list = l /\ last.ok) =>
            {last.src, last.dst} \subseteq Range(cl[l].usedBuffers)

\* C11: the render area handed to vkCmdBeginRenderingKHR is the explicit area if the
\* caller gave one; else offset (0,0) with the extent of color attachment 0 if there
\* is a color attachment; else the depth attachment's extent; else the stencil
\* attachment's extent; else the zero rectangle, and the call is accepted either way.
C11_RenderAreaPriority ==
    last.op = "beginRendering" =>
        LET ri == last.ri[1]
            area == last.rendering[1].renderArea
            derived == ri.renderArea = <<>>
            noColor == derived /\ ri.colorAttachments = <<>>
            noDepth == noColor /\ ri.depthAttachment = <<>>
        IN  /\ last.ok /\ ~aborted
            /\ ~derived => area = ri.renderArea[1]
            /\ derived => area.offset = [x |-> 0, y |-> 0]
            /\ (derived /\ ~noColor) =>
                   area.extent = ImageExtent[ri.colorAttachments[1].image]
            /\ (noColor /\ ~noDepth) =>
                   area.extent = ImageExtent[ri.depthAttachment[1].image]
            /\ (noDepth /\ ri.stencilAttachment # <<>>) =>
                   area.extent = ImageExtent[ri.stencilAttachment[1].image]
            /\ (noDepth /\ ri.stencilAttachment = <<>>) =>
                   area.extent = [width |-> 0, height |-> 0]

\* a render pass with one 800x600 color attachment, a 1920x1080 depth attachment and
\* no explicit area got the area (800,600)
C11_ColorExtentWitness ==
    /\ last.op = "beginRendering"
    /\ last.ri[1].renderArea = <<>>
    /\ Len(last.ri[1].colorAttachments) = 1
    /\ last.ri[1].colorAttachments[1].image = "img1"
    /\ last.ri[1].depthAttachment # <<>>
    /\ last.ri[1].depthAttachment[1].image = "img2"
    /\ last.rendering[1].renderArea.extent = [width |-> 800, height |-> 600]

\* C12: when changeImageLayout(image, L) has returned, Image::layout of the image is
\* L and the image is in the list's usedImages, whatever the image and whatever L,
\* the layout the image already had included.
C12_LayoutChangeRecorded ==
    \A l \in Lists :
        (last.op = "changeImageLayout" /\ last.list = l) =>
            /\ last.ok /\ ~aborted
            /\ layout[last.image] = last.newLayout
            /\ last.image \in Range(cl[l].usedImages)

\* a layout change to the layout the image already had
C12_SameLayoutWitness ==
    /\ last.op = "changeImageLayout"
    /\ last.newLayout = "GENERAL"
    /\ last.barriers[1].oldLayout = "GENERAL"
    /\ layout[last.image] = "GENERAL"

\* C13: every changeImageLayout call emits exactly one barrier, for its image, from
\* the layout the image had just before the call to the requested layout, and leaves
\* the image in the requested layout and every other image as it was; no other call
\* emits a barrier. Hence n calls on one image emit n barriers that chain from the
\* initial layout to the last requested one.
C13_BarrierPerTransition ==
    [][/\ last'.op # "changeImageLayout" => last'.barriers = <<>> /\ layout' = layout
       /\ last'.op = "changeImageLayout" =>
              /\ last'.barriers = <<[image |-> last'.image,
                                     oldLayout |-> layout[last'.image],
                                     newLayout |-> last'.newLayout]>>
              /\ layout' = [layout EXCEPT ![last'.image] = last'.newLayout]]_vars

\* the third of three changes of img1 in one recording, from the layout the second
\* change requested (COLOR_ATTACHMENT) to GENERAL
C13_ThreeTransitionsWitness ==
    /\ cl["A"].usedImages = <<"img1", "img1", "img1">>
    /\ cl["A"].operationsInProgress = 1
    /\ layout["img2"] = "UNDEFINED"
    /\ last.op = "changeImageLayout"
    /\ last.barriers = <<[image |-> "img1", oldLayout |-> "COLOR_ATTACHMENT",
                          newLayout |-> "GENERAL"]>>
    /\ layout["img1"] = "GENERAL"

\* prefix order on the usage vectors
IsPrefix(s, t) == Len(s) <= Len(t) /\ SubSeq(t, 1, Len(s)) = s

\* C14: in the frame begin, beginRendering with one color attachment,
\* bindPipeline(P), draw, endRendering, end, reset, repeated for ever, every call is
\* accepted; the color target is in usedImages from beginRendering on and P in
\* usedGraphicsPipelines from bindPipeline on, both still there after end(), where
\* the counter is 0; reset() leaves the three vectors empty and the list empty.
C14_RecordResetCycle ==
    [][\A l \in {"A"} :
        LET c == cl'[l]
        IN  /\ last'.ok /\ ~aborted'
            /\ last'.op = "beginRendering" =>
                   c.usedImages = <<last'.ri[1].colorAttachments[1].image>>
            /\ last'.op = "bindPipeline" =>
                   c.usedGraphicsPipelines = <<last'.pipeline>>
            /\ last'.op \in {"bindPipeline", "draw", "endRendering", "end"} =>
                   c.usedImages = cl[l].usedImages /\ Len(c.usedImages) = 1
            /\ last'.op \in {"draw", "endRendering", "end"} =>
                   /\ c.usedGraphicsPipelines = cl[l].usedGraphicsPipelines
                   /\ Len(c.usedGraphicsPipelines) = 1
            /\ last'.op = "end" => c.operationsInProgress = 0
            /\ last'.op = "reset" =>
                   /\ c.empty
                   /\ c.usedBuffers = <<>> /\ c.usedImages = <<>>
                   /\ c.usedGraphicsPipelines = <<>>
                   /\ c.operationsInProgress = 0]_vars

\* a frame was recorded and reset, releasing the color target and the pipeline, and
\* the list is ready for the next frame
C14_FrameResetWitness ==
    /\ last.op = "reset" /\ last.ok
    /\ last.released = {"img2", "pipe1"}
    /\ cl["A"].empty /\ cl["A"].operationsInProgress = 0
    /\ Retained(cl["A"]) = {}

\* C15: with Idle, Recording and RecordingInsideRenderPass the counter values 0, 1
\* and 2, begin is accepted only at 0, beginRendering only at 1, endRendering only at
\* 2 and end only at 1; any other scope call fails and leaves the counter unchanged.
C15_TransitionLegality ==
    [][\A l \in Lists :
        (last'.list = l /\ last'.op \in {"begin", "beginRendering", "endRendering", "end"}) =>
            LET n == cl[l].operationsInProgress
                legal == \/ last'.op = "begin" /\ n = 0
                         \/ last'.op = "beginRendering" /\ n = 1
                         \/ last'.op = "endRendering" /\ n = 2
                         \/ last'.op = "end" /\ n = 1
            IN  IF legal THEN ~aborted' /\ last'.ok
                ELSE /\ aborted' /\ ~last'.ok
                     /\ cl'[l].operationsInProgress = n]_vars

\* C16: every call other than reset() and the destructor leaves each element of
\* usedBuffers, usedImages and usedGraphicsPipelines of every list in place.
C16_UsageOnlyGrows ==
    [][\A l \in Lists :
        last'.op \notin {"reset", "destroy"} =>
            /\ IsPrefix(cl[l].usedBuffers, cl'[l].usedBuffers)
            /\ IsPrefix(cl[l].usedImages, cl'[l].usedImages)
            /\ IsPrefix(cl[l].usedGraphicsPipelines, cl'[l].usedGraphicsPipelines)]_vars

\* a render pass was ended with an image and a pipeline retained, and both still are
C16_RetainedAcrossEndWitness ==
    /\ last.op = "endRendering"
    /\ cl["A"].usedImages # <<>>
    /\ cl["A"].usedGraphicsPipelines # <<>>

\* the native record a full translation of attachment a would be
TranslatedAttachment(a) ==
    [imageView |-> a.image, imageLayout |-> layout[a.image], resolveMode |-> a.resolveMode,
     loadOp |-> a.loadOp, storeOp |-> a.storeOp, clearValue |-> a.clearValue]

\* C17: the native color records of a beginRendering call are, in order and number,
\* the caller's color attachments, each with the image's layout at the call and the
\* caller's load op, store op, clear value and resolve mode; the depth and stencil
\* records, when present, carry the same fields of their attachments.
C17_AttachmentTranslation ==
    last.op = "beginRendering" =>
        LET ri == last.ri[1]
            info == last.rendering[1]
        IN  /\ info.colorAttachmentCount = Len(ri.colorAttachments)
            /\ info.colorAttachments =
                   [i \in 1..Len(ri.colorAttachments) |->
                       TranslatedAttachment(ri.colorAttachments[i])]
            /\ info.depthAttachment =
                   [i \in 1..Len(ri.depthAttachment) |->
                       TranslatedAttachment(ri.depthAttachment[i])]
            /\ info.stencilAttachment =
                   [i \in 1..Len(ri.stencilAttachment) |->
                       TranslatedAttachment(ri.stencilAttachment[i])]

\* C18: renderAttachmentBuffer is empty between calls, so the color records of a
\* beginRendering call are those of that call's attachments and nothing else, while
\* the images of those attachments stay in usedImages.
C18_ScratchBufferEmpty ==
    \A l \in Lists :
        /\ cl[l].renderAttachmentBuffer = <<>>
        /\ (last.op = "beginRendering" /\ last.list = l) =>
               LET colors == ImagesOf(last.ri[1].colorAttachments)
                   records == last.rendering[1].colorAttachments
               IN  /\ [i \in 1..Len(records) |-> records[i].imageView] = colors
                   /\ Range(colors) \subseteq Range(cl[l].usedImages)

\* a second render pass on another color attachment was begun inside the first
C18_SecondPassWitness ==
    /\ last.op = "beginRendering"
    /\ cl["A"].operationsInProgress = 2
    /\ cl["A"].usedImages = <<"img1", "img2">>
    /\ layout = [i \in Images |-> "UNDEFINED"]
    /\ Len(last.rendering[1].colorAttachments) = 1
    /\ last.rendering[1].colorAttachments[1].imageView = "img2"

\* C19: no call other than changeImageLayout changes Image::layout of any image;
\* reset() in particular keeps the layouts the discarded recording left.
C19_LayoutOnlyByChangeImageLayout ==
    [][last'.op # "changeImageLayout" => layout' = layout]_vars

\* a recording that changed the layout of img1 was reset and the layout stayed
C19_LayoutSurvivesResetWitness ==
    /\ last.op = "reset" /\ last.ok
    /\ "img1" \in last.released
    /\ layout["img1"] = "GENERAL"

\* C20: a native copy is issued only when, for every region, size + srcOffset and
\* size + dstOffset as unbounded integers are within the sizes of src and dst.
C20_NoCopyBeyondBuffer ==
    (last.op = "copyBufferToBuffer" /\ last.nativeCopies # <<>>) =>
        \A i \in 1..Len(last.regions) :
            /\ last.regions[i].size + last.regions[i].srcOffset <= BufferSize[last.src]
            /\ last.regions[i].size + last.regions[i].dstOffset <= BufferSize[last.dst]

\* C21: with two threads calling changeImageLayout on the same image through their
\* own lists, the old layout of the barrier a call emitted is the layout the image
\* has immediately before that call writes its new layout.
C21_LayoutReadWriteAtomic ==
    [][last'.op = "changeImageLayout" =>
          last'.barriers[1].oldLayout = layout[last'.image]]_vars

\* whether a call on a list with fields c passes the assertions of its function
Accepted(op, c) ==
    CASE op = "reset"   -> c.operationsInProgress = 0
      [] op = "destroy" -> ~c.device \/ (c.operationsInProgress = 0 /\ c.empty)
      [] OTHER          -> TRUE

\* C22: a call on one list leaves the fields (counter, empty flag, usage vectors,
\* scratch buffer) and the native command buffer of every other list unchanged,
\* and whether it passes or fails depends on the fields of its own list only.
C22_ListsIndependent ==
    [][\A l \in Lists :
        last'.list = l =>
            /\ \A o \in Lists \ {l} : cl'[o] = cl[o] /\ vk'[o] = vk[o]
            /\ last'.ok = Accepted(last'.op, cl[l])
            /\ aborted' = ~last'.ok]_vars

\* list B was reset while the thread of list A is in the middle of a recording
\* that holds an image
C22_ResetBesideRecordingWitness ==
    /\ last.op = "reset" /\ last.list = "B" /\ last.ok
    /\ last.released # {}
    /\ cl["A"].operationsInProgress = 1
    /\ cl["A"].usedImages # <<>>
    /\ cl["B"].usedImages = <<>>
====
